---- MODULE Spec2Model ----
(***************************************************************************)
(* A model of dvc_ssh/__init__.py: the atomic upload entry points of       *)
(* SSHFileSystem (upload_fobj, put_file), the process-wide memoized        *)
(* terminal prompt (ask_password), the credential resolution of            *)
(* _prepare_credentials, and the lazily built session handle (fs).         *)
(*                                                                         *)
(* Library code the module calls is modelled by what it does:              *)
(*   dvc_objects.fs.utils.as_atomic   tmp = join(parent(to), tmp_fname()); *)
(*                                    yield tmp; on BaseException          *)
(*                                    rm_file(tmp) with FileNotFoundError  *)
(*                                    suppressed, then re-raise; otherwise *)
(*                                    move(tmp, to)                        *)
(*   funcy.wrap_with(lock)            the call runs inside "with lock:"    *)
(*   funcy.memoize                    memory[args] looked up; on KeyError  *)
(*                                    the function runs and its result,    *)
(*                                    None included, is stored             *)
(*   funcy.wrap_prop(lock)            the property's __get__ runs inside   *)
(*                                    "with lock:"                         *)
(*   cached_property (funcy's, via    __get__ calls fget and stores the    *)
(*   dvc.utils.objects)               result in instance.__dict__; it does *)
(*                                    not look at instance.__dict__ first  *)
(*   asyncssh SSHClientConfig.parse   opens the file (FileNotFoundError    *)
(*                                    when it is missing); Port is read as *)
(*                                    an integer, and a value that is not  *)
(*                                    one raises ConfigParseError          *)
(***************************************************************************)
EXTENDS Integers, Sequences, FiniteSets, TLC

(***************************************************************************)
(* Bounds of the model.                                                    *)
(***************************************************************************)
\* threads that upload concurrently
NumUploaders == 2
\* uploads started in one run, over all threads
MaxUploads == 2
\* chunks the underlying write transfers per upload
PayloadLen == 2
\* threads that resolve credentials concurrently
NumResolvers == 2
\* calls of _prepare_credentials in one run, over all threads
MaxResolves == 2
\* terminal reads that end with an interrupt in one run
MaxRaises == 1
\* threads that access the fs property concurrently
NumAccessors == 2
\* filesystem instances
NumInstances == 2
\* accesses to fs in one run, over all threads
MaxAccesses == 3

\* DEFAULT_PORT
DEFAULT_PORT == 22
\* config.get("timeout", 1800)
DEFAULT_TIMEOUT == 1800

VARIABLES
    files,        \* the remote file system: path -> file state
    upc,          \* per uploader: position in upload_fobj / put_file
    udest,        \* per uploader: to_info
    utmp,         \* per uploader: tmp_file yielded by as_atomic
    uid,          \* per uploader: number of the upload (names its payload)
    uwritten,     \* per uploader: chunks the underlying write has transferred
    uexc,         \* per uploader: the exception in flight ("" when none)
    uerr,         \* per uploader: the exception that reached the caller
    nextId,       \* the next upload number, also the next random tmp suffix
    usnap,        \* history: state of the destination when the call began
    udirty,       \* history: another upload renamed onto the destination since
    ucause,       \* history: the exception the underlying write raised
    lastRenamed,  \* history: per destination, the upload whose rename came last
    completed     \* history: uploads whose underlying write has returned

uvars == <<files, upc, udest, utmp, uid, uwritten, uexc, uerr, nextId,
           usnap, udirty, ucause, lastRenamed, completed>>

VARIABLES
    lock,         \* the threading.Lock() wrapped around ask_password: 0 or its holder
    memory,       \* memoize's memory of ask_password: (host, user, port, desc) -> result
    rpc,          \* per resolver: position in _prepare_credentials / ask_password
    rcfg,         \* per resolver: **config
    rfile,        \* per resolver: ~/.ssh/config as it was when the call read it
    rssh,         \* per resolver: user_ssh_config
    login,        \* per resolver: login_info
    ropt,         \* per resolver: index of the loop over ("password", "passphrase")
    rerr,         \* per resolver: the exception that left _prepare_credentials
    nResolves,    \* calls of _prepare_credentials so far
    nRaises,      \* terminal reads that ended with an interrupt so far
    prompts,      \* history: per key, terminal reads started
    answered,     \* history: per key, terminal reads ended with a value or end-of-input
    got,          \* history: per resolver, (key, result) pairs ask_password returned
    outcome       \* history: per resolver, how its last ask_password step ended

rvars == <<lock, memory, rpc, rcfg, rfile, rssh, login, ropt, rerr, nResolves, nRaises,
           prompts, answered, got, outcome>>

VARIABLES
    fsLock,       \* the threading.Lock() of wrap_prop around fs: 0 or its holder
    instDict,     \* per instance: instance.__dict__["fs"], 0 when not set
    built,        \* per instance: sessions constructed so far
    apc,          \* per accessor thread: position in an access to self.fs
    ainst,        \* per accessor thread: the instance accessed
    aret,         \* per accessor thread: the session the access returned
    nAccesses     \* accesses to fs begun so far

fvars == <<fsLock, instDict, built, apc, ainst, aret, nAccesses>>

vars == <<uvars, rvars, fvars>>

(***************************************************************************)
(* Paths and file contents.                                                *)
(***************************************************************************)
Uploaders == 1..NumUploaders

\* A destination path: a directory and a base name (uniq = 0).
Dests == {[dir |-> "data", base |-> "obj", uniq |-> 0],
          [dir |-> "cache", base |-> "obj", uniq |-> 0]}

NoPath == [dir |-> "", base |-> "", uniq |-> 0]

\* fs.parent(to_info)
Parent(p) == p.dir

\* fs.join(parent, tmp_fname()): tmp_fname() is "." + a fresh random id + ".tmp";
\* the n-th random id drawn in the process is modelled by n.
\* Variant: one fixed temporary name per directory instead of a fresh one.
\* Variant: the temporary file is made in a scratch directory of its own.
TmpInfoScratchDir(d, n) == [dir |-> "scratch", base |-> ".tmp", uniq |-> n]
TmpInfoFixedName(d, n) == [dir |-> Parent(d), base |-> ".tmp", uniq |-> 1]
TmpInfo(d, n) == [dir |-> Parent(d), base |-> ".tmp", uniq |-> n]

TmpPaths == {TmpInfo(d, n) : d \in Dests, n \in 1..MaxUploads}

Paths == Dests \cup TmpPaths

Absent == [present |-> FALSE, bytes |-> <<>>]

File(b) == [present |-> TRUE, bytes |-> b]

\* The bytes upload n transfers, chunk by chunk; upload 0 names the content a
\* destination may hold before any upload of the run.
Payload(n) == [i \in 1..PayloadLen |-> 10 * n + i]

Prior == File(Payload(0))

\* BaseException subclasses the underlying write can end with: an error of the
\* transfer (an Exception) or an interrupt of the surrounding execution.
WriteErrors == {"TransferError", "KeyboardInterrupt"}

(***************************************************************************)
(* The atomic upload: upload_fobj and put_file inside as_atomic.           *)
(***************************************************************************)
\* The path handed to the underlying write: super().upload_fobj(fobj, tmp_file)
\* and super().put_file(from_file, tmp_file) both get the temporary path.
\* Variant: the write goes straight to the destination.
WriteTargetDest(u) == udest[u]
WriteTarget(u) == utmp[u]

\* "except BaseException:" in as_atomic catches every exception, interrupts too.
\* Variant: "except Exception:", which lets an interrupt pass.
CleanupCatchesException(e) == e # "KeyboardInterrupt"
CleanupCatches(e) == TRUE

\* fs.rm_file(tmp_info) under suppress(FileNotFoundError).
RmFile(f, p) == [f EXCEPT ![p] = Absent]

\* fs.move(tmp_info, to_info): the rename of the remote file system; it replaces
\* whatever is at the destination, in one step.
\* Variant: a copy that leaves the source in place.
MoveCopies(f, src, dst) == [f EXCEPT ![dst] = f[src]]
Move(f, src, dst) == [f EXCEPT ![dst] = f[src], ![src] = Absent]

\* as_atomic renames in the else branch of its try: only once the body, the
\* underlying write, has returned.
\* Variant: the rename does not wait for the write to return.
RenameWhileWriting(u) == upc[u] \in {"writing", "written"}
RenameEnabled(u) == upc[u] = "written"

\* One chunk appended through the open handle of the write.
AppendChunk(st, c) == File(IF st.present THEN Append(st.bytes, c) ELSE <<c>>)

UploadInit ==
    /\ files \in [Paths -> {Absent, Prior}]
    /\ \A p \in TmpPaths : files[p] = Absent
    /\ upc = [u \in Uploaders |-> "idle"]
    /\ udest = [u \in Uploaders |-> NoPath]
    /\ utmp = [u \in Uploaders |-> NoPath]
    /\ uid = [u \in Uploaders |-> 0]
    /\ uwritten = [u \in Uploaders |-> 0]
    /\ uexc = [u \in Uploaders |-> ""]
    /\ uerr = [u \in Uploaders |-> ""]
    /\ nextId = 1
    /\ usnap = [u \in Uploaders |-> Absent]
    /\ udirty = [u \in Uploaders |-> FALSE]
    /\ ucause = [u \in Uploaders |-> ""]
    /\ lastRenamed = [d \in Dests |-> 0]
    /\ completed = {}

\* as_atomic(self, to_info) is entered: it derives the temporary path and
\* yields it to the body of the with statement.
AsAtomicEnter(u, d) ==
    /\ upc[u] = "idle"
    /\ nextId <= MaxUploads
    /\ upc' = [upc EXCEPT ![u] = "entered"]
    /\ udest' = [udest EXCEPT ![u] = d]
    /\ utmp' = [utmp EXCEPT ![u] = TmpInfo(d, nextId)]
    /\ uid' = [uid EXCEPT ![u] = nextId]
    /\ uwritten' = [uwritten EXCEPT ![u] = 0]
    /\ uexc' = [uexc EXCEPT ![u] = ""]
    /\ uerr' = [uerr EXCEPT ![u] = ""]
    /\ nextId' = nextId + 1
    /\ usnap' = [usnap EXCEPT ![u] = files[d]]
    /\ udirty' = [udirty EXCEPT ![u] = FALSE]
    /\ ucause' = [ucause EXCEPT ![u] = ""]
    /\ UNCHANGED <<files, lastRenamed, completed>>
    /\ UNCHANGED <<rvars, fvars>>

\* upload_fobj(fobj, to_info) is called by thread u.
UploadFobj(u, to_info) == AsAtomicEnter(u, to_info)

\* put_file(from_file, to_info) is called by thread u.
PutFile(u, to_info) == AsAtomicEnter(u, to_info)

\* The underlying write (super().upload_fobj or super().put_file) opens its
\* target for writing: the file exists, empty.
WriteOpen(u) ==
    /\ upc[u] = "entered"
    /\ files' = [files EXCEPT ![WriteTarget(u)] = File(<<>>)]
    /\ upc' = [upc EXCEPT ![u] = "writing"]
    /\ UNCHANGED <<udest, utmp, uid, uwritten, uexc, uerr, nextId,
                   usnap, udirty, ucause, lastRenamed, completed>>
    /\ UNCHANGED <<rvars, fvars>>

\* The underlying write transfers its next chunk; after the last one it returns.
WriteChunk(u) ==
    /\ upc[u] = "writing"
    /\ uwritten[u] < PayloadLen
    /\ files' = [files EXCEPT ![WriteTarget(u)] =
                    AppendChunk(@, Payload(uid[u])[uwritten[u] + 1])]
    /\ uwritten' = [uwritten EXCEPT ![u] = @ + 1]
    /\ upc' = [upc EXCEPT ![u] =
                    IF uwritten[u] + 1 = PayloadLen THEN "written" ELSE "writing"]
    /\ completed' = IF uwritten[u] + 1 = PayloadLen
                    THEN completed \cup {uid[u]} ELSE completed
    /\ UNCHANGED <<udest, utmp, uid, uexc, uerr, nextId,
                   usnap, udirty, ucause, lastRenamed>>
    /\ UNCHANGED <<rvars, fvars>>

\* The underlying write raises e, or the execution is interrupted, before the
\* target is opened or between two chunks.
WriteFail(u, e) ==
    /\ upc[u] \in {"entered", "writing"}
    /\ upc' = [upc EXCEPT ![u] = "failing"]
    /\ uexc' = [uexc EXCEPT ![u] = e]
    /\ ucause' = [ucause EXCEPT ![u] = e]
    /\ UNCHANGED <<files, udest, utmp, uid, uwritten, uerr, nextId,
                   usnap, udirty, lastRenamed, completed>>
    /\ UNCHANGED <<rvars, fvars>>

\* as_atomic's handler: the temporary path is removed and the exception raised
\* again, so it reaches the caller of upload_fobj / put_file.
Cleanup(u) ==
    /\ upc[u] = "failing"
    /\ files' = IF CleanupCatches(uexc[u]) THEN RmFile(files, utmp[u]) ELSE files
    /\ upc' = [upc EXCEPT ![u] = "raised"]
    /\ uerr' = [uerr EXCEPT ![u] = uexc[u]]
    /\ uexc' = [uexc EXCEPT ![u] = ""]
    /\ UNCHANGED <<udest, utmp, uid, uwritten, nextId,
                   usnap, udirty, ucause, lastRenamed, completed>>
    /\ UNCHANGED <<rvars, fvars>>

\* as_atomic's else branch: the write returned, the temporary path is renamed
\* onto the destination.
Rename(u) ==
    /\ RenameEnabled(u)
    /\ files' = Move(files, utmp[u], udest[u])
    /\ upc' = [upc EXCEPT ![u] = "done"]
    /\ lastRenamed' = [lastRenamed EXCEPT ![udest[u]] = uid[u]]
    /\ udirty' = [v \in Uploaders |->
                    IF v # u /\ upc[v] # "idle" /\ udest[v] = udest[u]
                    THEN TRUE ELSE udirty[v]]
    /\ UNCHANGED <<udest, utmp, uid, uwritten, uexc, uerr, nextId,
                   usnap, ucause, completed>>
    /\ UNCHANGED <<rvars, fvars>>

\* The call has returned or raised; the thread is free for its next upload.
UploadReturn(u) ==
    /\ upc[u] \in {"done", "raised"}
    /\ upc' = [upc EXCEPT ![u] = "idle"]
    /\ udest' = [udest EXCEPT ![u] = NoPath]
    /\ utmp' = [utmp EXCEPT ![u] = NoPath]
    /\ uid' = [uid EXCEPT ![u] = 0]
    /\ uwritten' = [uwritten EXCEPT ![u] = 0]
    /\ uerr' = [uerr EXCEPT ![u] = ""]
    /\ usnap' = [usnap EXCEPT ![u] = Absent]
    /\ udirty' = [udirty EXCEPT ![u] = FALSE]
    /\ ucause' = [ucause EXCEPT ![u] = ""]
    /\ UNCHANGED <<files, uexc, nextId, lastRenamed, completed>>
    /\ UNCHANGED <<rvars, fvars>>

UploadNext ==
    \/ \E u \in Uploaders, d \in Dests : UploadFobj(u, d)
    \/ \E u \in Uploaders, d \in Dests : PutFile(u, d)
    \/ \E u \in Uploaders : WriteOpen(u)
    \/ \E u \in Uploaders : WriteChunk(u)
    \/ \E u \in Uploaders, e \in WriteErrors : WriteFail(u, e)
    \/ \E u \in Uploaders : Cleanup(u)
    \/ \E u \in Uploaders : Rename(u)
    \/ \E u \in Uploaders : UploadReturn(u)

(***************************************************************************)
(* Values of Python: None and present values, truthiness, "or".            *)
(***************************************************************************)
None == <<>>

Some(x) == <<x>>

\* bool(x) for an optional string and an optional integer
TruthyStr(o) == o # None /\ o[1] # ""

TruthyInt(o) == o # None /\ o[1] # 0

\* a or b, for optional strings and optional integers
OrStr(a, b) == IF TruthyStr(a) THEN a ELSE b

OrInt(a, b) == IF TruthyInt(a) THEN a ELSE b

(***************************************************************************)
(* The options of a call and the personal SSH configuration.               *)
(***************************************************************************)
Resolvers == 1..NumResolvers

\* getpass.getuser()
LocalUser == "local"

\* **config with only a host: every other key is missing.  For the keys read
\* with config.get(key), None stands for a missing key and for an explicit None.
BaseConfig ==
    [hasHost |-> TRUE, host |-> "h1", user |-> None, username |-> None,
     port |-> None, password |-> None, passphrase |-> None,
     ask_password |-> FALSE, ask_passphrase |-> FALSE, keyfile |-> None,
     timeout |-> None, gss_auth |-> None, agent_forwarding |-> None,
     max_sessions |-> None]

\* ~/.ssh/config does not exist: parse_config raises FileNotFoundError and
\* user_ssh_config is {}.  In a file Port is the text written there; in
\* user_ssh_config it is the integer the parser made of it.
NoSshFile ==
    [exists |-> FALSE, Hostname |-> None, User |-> None, Port |-> None,
     IdentityFile |-> <<>>, ProxyCommand |-> None]

\* ~/.ssh/config exists and sets nothing for the host.
EmptySshFile == [NoSshFile EXCEPT !.exists = TRUE]

\* The options of the calls that run concurrently: two hosts, any ask flags.
PromptConfigs ==
    {[BaseConfig EXCEPT !.host = h, !.ask_password = a, !.ask_passphrase = b] :
        h \in {"h1", "h2"}, a \in BOOLEAN, b \in BOOLEAN}

PromptSshFiles == {NoSshFile}

\* The options of calls made one after the other whose cache keys differ in
\* host, username, port or kind: both secrets asked for, or the passphrase only.
KeyConfigs ==
    {[BaseConfig EXCEPT !.host = h, !.user = u, !.port = p,
                        !.ask_password = a, !.ask_passphrase = TRUE] :
        h \in {"h1", "h2"}, u \in {None, Some("alice")},
        p \in {None, Some(2222)}, a \in BOOLEAN}

\* The options of the concurrent calls whose completion is examined: one host,
\* the passphrase asked for, the password asked for or not.
FairConfigs ==
    {[BaseConfig EXCEPT !.ask_password = a, !.ask_passphrase = TRUE] : a \in BOOLEAN}

\* The options of the calls whose resolved fields are examined: the connection
\* fields, the secrets, and the key files and remaining options, each varied
\* with the others left out.
ResolveConfigs ==
    {[BaseConfig EXCEPT !.hasHost = FALSE, !.host = ""]}
    \cup {[BaseConfig EXCEPT !.host = h, !.user = u, !.username = n, !.port = p] :
            h \in {"h1", "h2"}, u \in {None, Some("alice")},
            n \in {None, Some(""), Some("bob")},
            p \in {None, Some(0), Some(2222)}}
    \cup {[BaseConfig EXCEPT !.password = pw, !.passphrase = pp,
                             !.ask_password = a, !.ask_passphrase = b] :
            pw \in {None, Some(""), Some("pw")}, pp \in {None, Some("pp")},
            a \in BOOLEAN, b \in BOOLEAN}
    \cup {[BaseConfig EXCEPT !.keyfile = k, !.timeout = t, !.gss_auth = g,
                             !.agent_forwarding = f, !.max_sessions = m] :
            k \in {None, Some(""), Some("~/key"), Some("/k/key")}, t \in {None, Some(60)},
            g \in {None, Some(TRUE)}, f \in {None, Some(FALSE)},
            m \in {None, Some(5)}}

ResolveSshFiles ==
    {NoSshFile}
    \cup {[EmptySshFile EXCEPT !.Hostname = hn, !.User = su, !.Port = sp,
                               !.IdentityFile = idf, !.ProxyCommand = pc] :
            hn \in {None, Some("real.example")}, su \in {None, Some("carol")},
            sp \in {None, Some("2200"), Some("abc")}, idf \in {<<>>, <<"~/id_a", "/k/id_b">>},
            pc \in {None, Some("nc %h %p")}}

\* The values a terminal read returns.
Secrets == {"s1", "s2"}

(***************************************************************************)
(* _prepare_credentials: the resolved fields.                              *)
(***************************************************************************)
\* int(text) as the configuration parser applies it to Port
IsIntText(t) == t \in {"22", "2200"}

IntOfText(t) ==
    CASE t = "22" -> 22
      [] t = "2200" -> 2200
      [] OTHER -> 0

\* config.parse(path) raises ConfigParseError for a Port that is no integer.
ParseFails(f) == f.exists /\ f.Port # None /\ ~IsIntText(f.Port[1])

\* config["host"] raises KeyError when the options hold no host.
HostMissingIgnored(cfg) == FALSE
HostMissing(cfg) == ~cfg.hasHost

\* try: parse_config(host=config["host"]) except FileNotFoundError: {}
UserSshConfig(f) ==
    IF f.exists
    THEN [f EXCEPT !.Port = IF f.Port = None THEN None ELSE Some(IntOfText(f.Port[1]))]
    ELSE NoSshFile

\* silent(int)(x): int(x), or None when int raises (as it does for None)
SilentInt(o) == o

\* login_info["host"] = user_ssh_config.get("Hostname", config["host"])
\* Variant: the configured Hostname is ignored.
ResolveHostExplicit(cfg, ssh) == cfg.host
ResolveHost(cfg, ssh) == IF ssh.Hostname # None THEN ssh.Hostname[1] ELSE cfg.host

\* config.get("user") or config.get("username") or user_ssh_config.get("User")
\* or getpass.getuser()
ResolveUsername(cfg, ssh) ==
    OrStr(cfg.user, OrStr(cfg.username, OrStr(ssh.User, Some(LocalUser))))[1]

\* config.get("port") or silent(int)(user_ssh_config.get("Port")) or DEFAULT_PORT
ResolvePort(cfg, ssh) ==
    OrInt(cfg.port, OrInt(SilentInt(ssh.Port), Some(DEFAULT_PORT)))[1]

\* os.path.expanduser(key)
ExpandUser(k) ==
    CASE k = "~/key" -> "/home/local/key"
      [] k = "~/id_a" -> "/home/local/id_a"
      [] OTHER -> k

\* Variant: the keyfile is put in front of the configuration's list.
RawKeysMerged(cfg, ssh) ==
    IF TruthyStr(cfg.keyfile) THEN <<cfg.keyfile[1]>> \o ssh.IdentityFile
    ELSE ssh.IdentityFile

\* raw_keys: the keyfile if given, else the configuration's IdentityFile list
RawKeys(cfg, ssh) ==
    IF TruthyStr(cfg.keyfile) THEN <<cfg.keyfile[1]>>
    ELSE IF ssh.IdentityFile # <<>> THEN ssh.IdentityFile
    ELSE <<>>

\* login_info["client_keys"], set only when raw_keys is not empty
ClientKeys(cfg, ssh) ==
    LET raw == RawKeys(cfg, ssh)
    IN  IF raw = <<>> THEN None
        ELSE Some([i \in 1..Len(raw) |-> ExpandUser(raw[i])])

\* dict.get(key, default): the default only when the key is missing
GetDefault(o, d) == IF o = None THEN d ELSE o[1]

\* ("password", "passphrase")
Options == <<"password", "passphrase">>

ExplicitSecret(cfg, option) ==
    IF option = "password" THEN cfg.password ELSE cfg.passphrase

\* Variant: the flag of the other kind is read.
AskFlagOfOtherKind(cfg, option) ==
    IF option = "password" THEN cfg.ask_passphrase ELSE cfg.ask_password

AskFlag(cfg, option) ==
    IF option = "password" THEN cfg.ask_password ELSE cfg.ask_passphrase

\* Variant: the kind of secret is left out of the key.
KeyOfWithoutKind(r) == <<login[r].host, login[r].username, login[r].port, "password">>

\* The arguments of ask_password, the key of memoize's memory.
KeyOf(r) == <<login[r].host, login[r].username, login[r].port, Options[ropt[r]]>>

NoLogin ==
    [host |-> "", username |-> "", port |-> 0, password |-> None,
     passphrase |-> None, client_keys |-> None, timeout |-> 0,
     gss_auth |-> FALSE, agent_forwarding |-> FALSE, proxy_command |-> None,
     max_sessions |-> None]

SetSecret(l, option, v) ==
    IF option = "password" THEN [l EXCEPT !.password = v]
    ELSE [l EXCEPT !.passphrase = v]

(***************************************************************************)
(* ask_password: wrap_with(threading.Lock()) around memoize around getpass *)
(***************************************************************************)
\* "with lock:" blocks until no thread holds the lock.
\* Variant: no lock around ask_password.
LockFreeAlways == TRUE
LockFree == lock = 0

\* memoize: "return memory[key]" succeeds when the key is stored, whatever the
\* stored value.
\* Variant: a stored None is taken for a miss.
CacheHitNotNone(mem, k) == k \in DOMAIN mem /\ mem[k] # None
CacheHit(mem, k) == k \in DOMAIN mem

\* memoize: value = memory[key] = func(*args)
\* Variant: the result is not stored.
MemoStoreNothing(mem, k, v) == mem
MemoStore(mem, k, v) == IF k \in DOMAIN mem THEN [mem EXCEPT ![k] = v] ELSE mem @@ (k :> v)

\* An exception that is not EOFError leaves ask_password before memoize
\* assigns memory[key]: the cache is as it was.
\* Variant: the exception is swallowed like EOFError and None is cached.
MemoAfterRaiseCachesNone(mem, k) == MemoStore(mem, k, None)
MemoAfterRaise(mem, k) == mem

\* "with lock:" releases the lock when the exception passes through it.
\* Variant: the lock is released on the return path only.
ReleasedOnReturnOnly(l) == l
Released(l) == 0

Count(f, k) == IF k \in DOMAIN f THEN f[k] ELSE 0

Inc(f, k) == IF k \in DOMAIN f THEN [f EXCEPT ![k] = @ + 1] ELSE f @@ (k :> 1)

ResolveInit ==
    /\ lock = 0
    /\ memory = <<>>
    /\ rpc = [r \in Resolvers |-> "idle"]
    /\ rcfg = [r \in Resolvers |-> BaseConfig]
    /\ rfile = [r \in Resolvers |-> NoSshFile]
    /\ rssh = [r \in Resolvers |-> NoSshFile]
    /\ login = [r \in Resolvers |-> NoLogin]
    /\ ropt = [r \in Resolvers |-> 0]
    /\ rerr = [r \in Resolvers |-> ""]
    /\ nResolves = 0
    /\ nRaises = 0
    /\ prompts = <<>>
    /\ answered = <<>>
    /\ got = [r \in Resolvers |-> {}]
    /\ outcome = [r \in Resolvers |-> ""]

\* _prepare_credentials(**config) up to the loop over the secrets: config["host"]
\* raises KeyError('host') when there is no host; otherwise the personal
\* configuration is read (a parse error other than FileNotFoundError leaves the
\* call) and host, username and port are resolved.
PrepareCredentials(r, cfg, f) ==
    /\ rpc[r] = "idle"
    /\ nResolves < MaxResolves
    /\ nResolves' = nResolves + 1
    /\ rcfg' = [rcfg EXCEPT ![r] = cfg]
    /\ IF HostMissing(cfg)
       THEN /\ rpc' = [rpc EXCEPT ![r] = "raised"]
            /\ rerr' = [rerr EXCEPT ![r] = "KeyError"]
            /\ UNCHANGED <<rfile, rssh, login, ropt>>
       ELSE IF ParseFails(f)
       THEN /\ rpc' = [rpc EXCEPT ![r] = "raised"]
            /\ rerr' = [rerr EXCEPT ![r] = "ConfigParseError"]
            /\ rfile' = [rfile EXCEPT ![r] = f]
            /\ UNCHANGED <<rssh, login, ropt>>
       ELSE LET ssh == UserSshConfig(f)
            IN  /\ rfile' = [rfile EXCEPT ![r] = f]
                /\ rssh' = [rssh EXCEPT ![r] = ssh]
                /\ login' = [login EXCEPT ![r] =
                       [NoLogin EXCEPT !.host = ResolveHost(cfg, ssh),
                                       !.username = ResolveUsername(cfg, ssh),
                                       !.port = ResolvePort(cfg, ssh)]]
                /\ ropt' = [ropt EXCEPT ![r] = 1]
                /\ rpc' = [rpc EXCEPT ![r] = "option"]
                /\ UNCHANGED rerr
    /\ UNCHANGED <<lock, memory, nRaises, prompts, answered, got, outcome>>
    /\ UNCHANGED <<uvars, fvars>>

\* One round of "for option in (password, passphrase)": the explicit value is
\* taken; with the ask flag set and no value, ask_password is called.
OptionStep(r) ==
    /\ rpc[r] = "option"
    /\ ropt[r] \in 1..Len(Options)
    /\ LET option == Options[ropt[r]]
           explicit == ExplicitSecret(rcfg[r], option)
       IN  /\ login' = [login EXCEPT ![r] = SetSecret(@, option, explicit)]
           /\ IF AskFlag(rcfg[r], option) /\ explicit = None
              THEN /\ rpc' = [rpc EXCEPT ![r] = "wait"]
                   /\ UNCHANGED ropt
              ELSE /\ ropt' = [ropt EXCEPT ![r] = @ + 1]
                   /\ UNCHANGED rpc
    /\ UNCHANGED <<lock, memory, rcfg, rfile, rssh, rerr, nResolves, nRaises,
                   prompts, answered, got, outcome>>
    /\ UNCHANGED <<uvars, fvars>>

\* ask_password: the lock is acquired.
AskAcquire(r) ==
    /\ rpc[r] = "wait"
    /\ LockFree
    /\ lock' = r
    /\ rpc' = [rpc EXCEPT ![r] = "locked"]
    /\ UNCHANGED <<memory, rcfg, rfile, rssh, login, ropt, rerr, nResolves, nRaises,
                   prompts, answered, got, outcome>>
    /\ UNCHANGED <<uvars, fvars>>

\* ask_password: memoize looks the key up.  A hit returns the stored result and
\* the lock is released; a miss starts the terminal read.
AskLookup(r) ==
    /\ rpc[r] = "locked"
    /\ IF CacheHit(memory, KeyOf(r))
       THEN /\ login' = [login EXCEPT ![r] =
                            SetSecret(@, Options[ropt[r]], memory[KeyOf(r)])]
            /\ got' = [got EXCEPT ![r] = @ \cup {<<KeyOf(r), memory[KeyOf(r)]>>}]
            /\ outcome' = [outcome EXCEPT ![r] = "hit"]
            /\ lock' = 0
            /\ ropt' = [ropt EXCEPT ![r] = @ + 1]
            /\ rpc' = [rpc EXCEPT ![r] = "option"]
            /\ UNCHANGED prompts
       ELSE /\ prompts' = Inc(prompts, KeyOf(r))
            /\ outcome' = [outcome EXCEPT ![r] = "miss"]
            /\ rpc' = [rpc EXCEPT ![r] = "prompt"]
            /\ UNCHANGED <<login, got, lock, ropt>>
    /\ UNCHANGED <<memory, rcfg, rfile, rssh, rerr, nResolves, nRaises, answered>>
    /\ UNCHANGED <<uvars, fvars>>

\* The end of a terminal read with result v (None after EOFError): the result
\* is stored, returned, and the lock released.
PromptEnds(r, v, how) ==
    /\ rpc[r] = "prompt"
    /\ memory' = MemoStore(memory, KeyOf(r), v)
    /\ login' = [login EXCEPT ![r] = SetSecret(@, Options[ropt[r]], v)]
    /\ got' = [got EXCEPT ![r] = @ \cup {<<KeyOf(r), v>>}]
    /\ outcome' = [outcome EXCEPT ![r] = how]
    /\ answered' = Inc(answered, KeyOf(r))
    /\ lock' = 0
    /\ ropt' = [ropt EXCEPT ![r] = @ + 1]
    /\ rpc' = [rpc EXCEPT ![r] = "option"]
    /\ UNCHANGED <<rcfg, rfile, rssh, rerr, nResolves, nRaises, prompts>>
    /\ UNCHANGED <<uvars, fvars>>

\* getpass.getpass returns what the user typed.
TerminalReturn(r, s) == PromptEnds(r, Some(s), "value")

\* getpass.getpass raises EOFError: ask_password returns None.
TerminalEOF(r) == PromptEnds(r, None, "eof")

\* getpass.getpass raises another exception (an interrupt): nothing is stored,
\* the lock is released by the with statement, and the exception leaves
\* ask_password and _prepare_credentials.
TerminalRaise(r) ==
    /\ rpc[r] = "prompt"
    /\ nRaises < MaxRaises
    /\ nRaises' = nRaises + 1
    /\ lock' = Released(lock)
    /\ memory' = MemoAfterRaise(memory, KeyOf(r))
    /\ rpc' = [rpc EXCEPT ![r] = "raised"]
    /\ rerr' = [rerr EXCEPT ![r] = "KeyboardInterrupt"]
    /\ outcome' = [outcome EXCEPT ![r] = "raise"]
    /\ UNCHANGED <<rcfg, rfile, rssh, login, ropt, nResolves, prompts,
                   answered, got>>
    /\ UNCHANGED <<uvars, fvars>>

\* _prepare_credentials after the loop: key files and the remaining fields.
FinishCredentials(r) ==
    /\ rpc[r] = "option"
    /\ ropt[r] = Len(Options) + 1
    /\ login' = [login EXCEPT ![r] =
           [@ EXCEPT !.client_keys = ClientKeys(rcfg[r], rssh[r]),
                     !.timeout = GetDefault(rcfg[r].timeout, DEFAULT_TIMEOUT),
                     !.gss_auth = GetDefault(rcfg[r].gss_auth, FALSE),
                     !.agent_forwarding = GetDefault(rcfg[r].agent_forwarding, TRUE),
                     !.proxy_command = rssh[r].ProxyCommand,
                     !.max_sessions = rcfg[r].max_sessions]]
    /\ rpc' = [rpc EXCEPT ![r] = "resolved"]
    /\ UNCHANGED <<lock, memory, rcfg, rfile, rssh, ropt, rerr, nResolves, nRaises,
                   prompts, answered, got, outcome>>
    /\ UNCHANGED <<uvars, fvars>>

\* The caller has the result or the exception; the thread is free again.
ResolveReturn(r) ==
    /\ rpc[r] \in {"resolved", "raised"}
    /\ rpc' = [rpc EXCEPT ![r] = "idle"]
    /\ rcfg' = [rcfg EXCEPT ![r] = BaseConfig]
    /\ rfile' = [rfile EXCEPT ![r] = NoSshFile]
    /\ rssh' = [rssh EXCEPT ![r] = NoSshFile]
    /\ login' = [login EXCEPT ![r] = NoLogin]
    /\ ropt' = [ropt EXCEPT ![r] = 0]
    /\ rerr' = [rerr EXCEPT ![r] = ""]
    /\ got' = [got EXCEPT ![r] = {}]
    /\ outcome' = [outcome EXCEPT ![r] = ""]
    /\ UNCHANGED <<lock, memory, nResolves, nRaises, prompts, answered>>
    /\ UNCHANGED <<uvars, fvars>>

\* The steps of a call once it has begun.
ResolveSteps(r) ==
    \/ OptionStep(r)
    \/ AskAcquire(r)
    \/ AskLookup(r)
    \/ \E s \in Secrets : TerminalReturn(r, s)
    \/ TerminalEOF(r)
    \/ TerminalRaise(r)
    \/ FinishCredentials(r)
    \/ ResolveReturn(r)

\* Concurrent calls that prompt.
PromptNext ==
    \/ \E r \in Resolvers, cfg \in PromptConfigs, f \in PromptSshFiles :
            PrepareCredentials(r, cfg, f)
    \/ \E r \in Resolvers : ResolveSteps(r)

\* Concurrent calls that contend for the lock and for the same keys.
FairNext ==
    \/ \E r \in Resolvers, cfg \in FairConfigs :
            PrepareCredentials(r, cfg, NoSshFile)
    \/ \E r \in Resolvers : ResolveSteps(r)

\* Calls of one thread, one after the other, over keys that differ in each part.
KeysNext ==
    \/ \E cfg \in KeyConfigs : PrepareCredentials(1, cfg, NoSshFile)
    \/ ResolveSteps(1)

\* One call, over all options and configurations.
ResolveNext ==
    \/ \E cfg \in ResolveConfigs, f \in ResolveSshFiles :
            nResolves = 0 /\ PrepareCredentials(1, cfg, f)
    \/ ResolveSteps(1)

(***************************************************************************)
(* fs: wrap_prop(threading.Lock()) around cached_property.                 *)
(***************************************************************************)
Accessors == 1..NumAccessors

Instances == 1..NumInstances

\* The n-th session constructed for instance i: _SSHFileSystem(**self.fs_args).
Session(i, n) == 10 * i + n

FsInit ==
    /\ fsLock = 0
    /\ instDict = [i \in Instances |-> 0]
    /\ built = [i \in Instances |-> 0]
    /\ apc = [t \in Accessors |-> "idle"]
    /\ ainst = [t \in Accessors |-> 0]
    /\ aret = [t \in Accessors |-> 0]
    /\ nAccesses = 0

\* Thread t evaluates self.fs on instance i.  The class attribute is a
\* descriptor with __get__ only, so instance.__dict__["fs"] is returned when it
\* is set; otherwise the descriptor's __get__ is called.
FsAccess(t, i) ==
    /\ apc[t] = "idle"
    /\ nAccesses < MaxAccesses
    /\ nAccesses' = nAccesses + 1
    /\ ainst' = [ainst EXCEPT ![t] = i]
    /\ IF instDict[i] # 0
       THEN /\ aret' = [aret EXCEPT ![t] = instDict[i]]
            /\ apc' = [apc EXCEPT ![t] = "got"]
       ELSE /\ aret' = [aret EXCEPT ![t] = 0]
            /\ apc' = [apc EXCEPT ![t] = "wait"]
    /\ UNCHANGED <<fsLock, instDict, built>>
    /\ UNCHANGED <<uvars, rvars>>

\* wrap_prop's __get__: "with lock:".
FsAcquire(t) ==
    /\ apc[t] = "wait"
    /\ fsLock = 0
    /\ fsLock' = t
    /\ apc' = [apc EXCEPT ![t] = "build"]
    /\ UNCHANGED <<instDict, built, ainst, aret, nAccesses>>
    /\ UNCHANGED <<uvars, rvars>>

\* cached_property's __get__ under the lock: the session is constructed, stored
\* in instance.__dict__["fs"] and returned; the lock is released.
FsBuild(t) ==
    /\ apc[t] = "build"
    /\ LET i == ainst[t]
           new == Session(i, built[i] + 1)
       IN  /\ built' = [built EXCEPT ![i] = @ + 1]
           /\ instDict' = [instDict EXCEPT ![i] = new]
           /\ aret' = [aret EXCEPT ![t] = new]
    /\ fsLock' = 0
    /\ apc' = [apc EXCEPT ![t] = "got"]
    /\ UNCHANGED <<ainst, nAccesses>>
    /\ UNCHANGED <<uvars, rvars>>

\* The access has returned its session; the thread is free again.
FsReturn(t) ==
    /\ apc[t] = "got"
    /\ apc' = [apc EXCEPT ![t] = "idle"]
    /\ ainst' = [ainst EXCEPT ![t] = 0]
    /\ aret' = [aret EXCEPT ![t] = 0]
    /\ UNCHANGED <<fsLock, instDict, built, nAccesses>>
    /\ UNCHANGED <<uvars, rvars>>

FsNext ==
    \/ \E t \in Accessors, i \in Instances : FsAccess(t, i)
    \/ \E t \in Accessors : FsAcquire(t)
    \/ \E t \in Accessors : FsBuild(t)
    \/ \E t \in Accessors : FsReturn(t)

Init == UploadInit /\ ResolveInit /\ FsInit

\* The initial state in which no destination holds anything yet.
InitEmpty == Init /\ \A d \in Dests : files[d] = Absent

Next == UploadNext \/ PromptNext \/ FairNext \/ KeysNext \/ ResolveNext \/ FsNext

Spec == Init /\ [][Next]_vars

SpecUpload == Init /\ [][UploadNext]_vars

SpecPrompt == InitEmpty /\ [][PromptNext]_vars

\* The concurrent calls under fair scheduling: a thread that can take a step
\* (its terminal read can end, or the lock it waits for stays free) takes one.
SpecPromptFair ==
    /\ InitEmpty
    /\ [][FairNext]_vars
    /\ \A r \in Resolvers : WF_vars(ResolveSteps(r))

SpecKeys == InitEmpty /\ [][KeysNext]_vars

SpecResolve == InitEmpty /\ [][ResolveNext]_vars

SpecFs == InitEmpty /\ [][FsNext]_vars

(***************************************************************************)
(* Properties of the atomic upload.                                        *)
(***************************************************************************)
UploadsFinished == \A u \in Uploaders : upc[u] \in {"idle", "done", "raised"}

\* C1: an upload whose underlying write failed mid-transfer has left its
\* destination exactly as it was when the call began (absent, or holding the
\* same content), unless another upload renamed onto it in the meantime.
C1_FailedUploadLeavesDestination ==
    \A u \in Uploaders :
        (upc[u] = "raised" /\ ~udirty[u]) => files[udest[u]] = usnap[u]

C1_Witness ==
    \E u \in Uploaders :
        /\ upc[u] = "raised"
        /\ ~udirty[u]
        /\ uwritten[u] >= 1
        /\ usnap[u] = Prior
        /\ files[udest[u]] = Prior

\* C2: in every reachable state every destination path is absent, holds its
\* prior content, or holds the complete bytes of one upload whose write has
\* finished; it never holds partial bytes.
C2_DestinationNeverPartial ==
    \A d \in Dests :
        \/ files[d] = Absent
        \/ files[d] = Prior
        \/ \E n \in completed : files[d] = File(Payload(n))

C2_Witness ==
    \E u \in Uploaders :
        /\ upc[u] = "writing"
        /\ files[utmp[u]].present
        /\ Len(files[utmp[u]].bytes) \in 1..(PayloadLen - 1)
        /\ \E n \in completed : files[udest[u]] = File(Payload(n))

C4_RenameAfterCompleteWrite ==
    [][/\ \A u \in Uploaders :
            (upc[u] # "done" /\ upc'[u] = "done") =>
                /\ upc[u] = "written"
                /\ uwritten[u] = PayloadLen
                /\ files[utmp[u]] = File(Payload(uid[u]))
                /\ files'[udest[u]] = File(Payload(uid[u]))
                /\ ~files'[utmp[u]].present
       /\ \A d \in Dests :
            files'[d] # files[d] =>
                \E u \in Uploaders :
                    upc[u] = "written" /\ upc'[u] = "done" /\ udest[u] = d]_vars

C4_Witness ==
    \E u \in Uploaders :
        /\ upc[u] = "done"
        /\ usnap[u] = Prior
        /\ files[udest[u]] = File(Payload(uid[u]))
        /\ ~files[utmp[u]].present

\* C5: once all uploads have finished, every destination that was renamed onto
\* holds the complete content of the upload whose rename completed last, and
\* one never renamed onto is as it was; no content mixes two writers.
C5_LastRenameWins ==
    UploadsFinished =>
        \A d \in Dests :
            IF lastRenamed[d] = 0
            THEN files[d] \in {Absent, Prior}
            ELSE files[d] = File(Payload(lastRenamed[d]))

C5_Witness ==
    \E u, v \in Uploaders :
        /\ u # v
        /\ upc[u] = "done" /\ upc[v] = "done"
        /\ udest[u] = udest[v]
        /\ udirty[u]
        /\ lastRenamed[udest[u]] = uid[u]
        /\ files[udest[u]] = File(Payload(uid[u]))

InFlight(u) == upc[u] \in {"entered", "writing", "written", "failing"}

\* C16: the temporary path of every upload in flight lies in the directory of
\* its destination, is no destination path, and is not the temporary path of
\* any other upload in flight, also of one to the same destination.
C16_TmpBesideDestinationAndUnique ==
    \A u \in Uploaders :
        InFlight(u) =>
            /\ utmp[u].dir = udest[u].dir
            /\ utmp[u] \notin Dests
            /\ \A v \in Uploaders : InFlight(v) => utmp[u] # udest[v]
            /\ \A v \in Uploaders : (v # u /\ InFlight(v)) => utmp[u] # utmp[v]

C16_Witness ==
    \E u, v \in Uploaders :
        /\ u # v
        /\ upc[u] = "writing" /\ upc[v] = "writing"
        /\ udest[u] = udest[v]
        /\ utmp[u] # utmp[v]
        /\ utmp[u].dir = udest[u].dir /\ utmp[v].dir = udest[v].dir

(***************************************************************************)
(* Properties of ask_password.                                             *)
(***************************************************************************)
\* C6, as claimed: for every key the terminal is read at most once, and all
\* resolutions that asked for a key obtained the same result.
C6_AtMostOnePromptPerKey ==
    /\ \A k \in DOMAIN prompts : prompts[k] <= 1
    /\ \A r1, r2 \in Resolvers :
        \A p1 \in got[r1], p2 \in got[r2] : p1[1] = p2[1] => p1[2] = p2[2]

\* C6, amended: for every key at most one terminal read ends with a value or
\* with end-of-input, and every resolution that obtained a result for a key
\* obtained the one stored for it, so all of them obtained the same result.
C6_AtMostOneAnsweredPromptPerKey ==
    /\ \A k \in DOMAIN answered : answered[k] <= 1
    /\ \A k \in DOMAIN prompts : prompts[k] <= Count(answered, k) + nRaises + 1
    /\ \A r \in Resolvers :
        \A p \in got[r] : p[1] \in DOMAIN memory /\ memory[p[1]] = p[2]

C6_Witness ==
    \E r1, r2 \in Resolvers :
        /\ r1 # r2
        /\ \E p \in got[r1] \cap got[r2] :
            /\ p[2] \in {Some(s) : s \in Secrets}
            /\ prompts[p[1]] = 1

\* C7: an entry of the cache is never removed or replaced; a terminal read
\* starts only for a key that has no entry; a lookup of a key that has an entry
\* returns the entry; and a read that ends with end-of-input stores None for
\* its key and does not raise.
C7_CachedOutcomeIsPermanent ==
    [][/\ \A k \in DOMAIN memory : k \in DOMAIN memory' /\ memory'[k] = memory[k]
       /\ \A r \in Resolvers :
            /\ (rpc[r] = "locked" /\ rpc'[r] = "prompt") =>
                    KeyOf(r) \notin DOMAIN memory
            /\ (rpc[r] = "locked" /\ rpc'[r] # "locked"
                    /\ KeyOf(r) \in DOMAIN memory) =>
                    /\ outcome'[r] = "hit"
                    /\ <<KeyOf(r), memory[KeyOf(r)]>> \in got'[r]
                    /\ prompts' = prompts
            /\ (rpc[r] = "prompt" /\ outcome'[r] = "eof") =>
                    /\ KeyOf(r) \in DOMAIN memory'
                    /\ memory'[KeyOf(r)] = None
                    /\ rpc'[r] = "option"
                    /\ rerr'[r] = ""]_vars

C7_Witness ==
    \E r \in Resolvers :
        /\ outcome[r] = "hit"
        /\ Cardinality(got[r]) = 1
        /\ \E p \in got[r] : p[2] = None /\ memory[p[1]] = None /\ prompts[p[1]] = 1

\* C8: in every reachable state at most one caller is inside a terminal read.
C8_OnePromptAtATime ==
    Cardinality({r \in Resolvers : rpc[r] = "prompt"}) <= 1

C8_Witness ==
    \E r1, r2 \in Resolvers :
        /\ rpc[r1] = "prompt"
        /\ rpc[r2] = "wait"
        /\ KeyOf(r1)[1] # KeyOf(r2)[1]
        /\ KeyOf(r1)[4] # KeyOf(r2)[4]

\* C17: the entries of the cache are independent per key (host, username,
\* port, kind).  A lookup is answered from the entry of exactly its own key and
\* otherwise reads the terminal and counts as a prompt of that key, whatever
\* entries other keys have -- so a cached password neither suppresses the
\* prompt for, nor is returned as, the passphrase of the same host, username
\* and port; a read that ends stores under its own key only.  A resolution
\* with both ask flags that starts on an empty cache prompts exactly twice,
\* for the password before the passphrase.
C17_KeysAreIndependent ==
    /\ [](\A r \in Resolvers :
            LET pw == <<login[r].host, login[r].username, login[r].port, "password">>
                pp == <<login[r].host, login[r].username, login[r].port, "passphrase">>
                both == rcfg[r].ask_password /\ rcfg[r].ask_passphrase
            IN  (nResolves = 1 /\ both) =>
                    /\ (rpc[r] = "prompt" /\ ropt[r] = 1) =>
                            prompts = (pw :> 1) /\ memory = <<>>
                    /\ (rpc[r] = "prompt" /\ ropt[r] = 2) =>
                            /\ prompts = (pw :> 1) @@ (pp :> 1)
                            /\ DOMAIN memory = {pw}
                    /\ rpc[r] = "resolved" =>
                            /\ prompts = (pw :> 1) @@ (pp :> 1)
                            /\ DOMAIN memory = {pw, pp}
                            /\ login[r].password = memory[pw]
                            /\ login[r].passphrase = memory[pp])
    /\ [][\A r \in Resolvers :
            LET kind == IF ropt[r] = 1 THEN "password" ELSE "passphrase"
                key == <<login[r].host, login[r].username, login[r].port, kind>>
            IN  /\ (rpc[r] = "locked" /\ rpc'[r] # "locked") =>
                        IF key \in DOMAIN memory
                        THEN /\ rpc'[r] = "option"
                             /\ login'[r][kind] = memory[key]
                             /\ prompts' = prompts
                        ELSE /\ rpc'[r] = "prompt"
                             /\ key \in DOMAIN prompts'
                             /\ prompts'[key] = Count(prompts, key) + 1
                             /\ \A k \in DOMAIN prompts' \ {key} :
                                    k \in DOMAIN prompts /\ prompts'[k] = prompts[k]
                /\ (rpc[r] = "prompt" /\ rpc'[r] = "option") =>
                        /\ DOMAIN memory' = DOMAIN memory \cup {key}
                        /\ \A k \in DOMAIN memory : memory'[k] = memory[k]
                        /\ memory'[key] = login'[r][kind]]_vars

\* The cache holds a password and a passphrase of one (host, username, port)
\* with different values, and a password under another port with yet another.
C17_Witness ==
    \E k1, k2, k3 \in DOMAIN memory :
        /\ k1[4] = "password" /\ k2[4] = "passphrase" /\ k3[4] = "password"
        /\ k1[1] = k2[1] /\ k1[2] = k2[2] /\ k1[3] = k2[3]
        /\ k3[1] = k1[1] /\ k3[2] = k1[2] /\ k3[3] # k1[3]
        /\ memory[k1] = Some("s1") /\ memory[k2] = Some("s2") /\ memory[k3] = None
        /\ prompts[k1] = 1 /\ prompts[k2] = 1 /\ prompts[k3] = 1

\* C18: when a terminal read ends with an exception other than EOFError, the
\* exception reaches the caller of the resolution, the lock is released and
\* nothing is stored for the key (the cache is as it was); the next lookup of
\* that key reads the terminal again, and the caller that raised never holds
\* the lock, so calls for other keys are not blocked by it.
C18_RaiseStoresNothingAndReleases ==
    /\ [](\A r \in Resolvers : rpc[r] = "raised" => lock # r)
    /\ [][\A r \in Resolvers :
        LET key == <<login[r].host, login[r].username, login[r].port,
                     IF ropt[r] = 1 THEN "password" ELSE "passphrase">>
        IN  /\ (rpc[r] = "prompt" /\ rpc'[r] \notin {"prompt", "option"}) =>
                    /\ rpc'[r] = "raised"
                    /\ rerr'[r] = "KeyboardInterrupt"
                    /\ lock = r /\ lock' = 0
                    /\ memory' = memory
                    /\ key \notin DOMAIN memory'
                    /\ login'[r] = login[r]
            /\ (rpc[r] = "locked" /\ rpc'[r] # "locked"
                    /\ key \notin DOMAIN memory /\ Count(prompts, key) >= 1) =>
                    /\ rpc'[r] = "prompt"
                    /\ prompts'[key] = prompts[key] + 1]_vars

\* A key whose first read was interrupted has been read a second time, and
\* that read was answered.
C18_Witness ==
    \E r \in Resolvers, k \in DOMAIN prompts :
        /\ nRaises = 1
        /\ prompts[k] = 2
        /\ Count(answered, k) = 1
        /\ k \in DOMAIN memory
        /\ <<k, memory[k]>> \in got[r]

\* C19: every call of ask_password, hit or miss, looks its key up, reads the
\* terminal and stores the result as one critical section under the one lock:
\* a caller between its lookup and its return holds the lock, the lock stays
\* held from a missed lookup into the read, and a result is returned or stored
\* only by the holder.  So no call returns -- not for a cached key either --
\* while another caller is inside a terminal read.
C19_LookupUnderLock ==
    /\ [](\A r \in Resolvers : (rpc[r] \in {"locked", "prompt"}) = (lock = r))
    /\ [][\A r \in Resolvers :
            /\ (rpc[r] = "locked" /\ rpc'[r] = "prompt") => lock' = r
            /\ got'[r] \ got[r] # {} =>
                    /\ lock = r
                    /\ lock' = 0
                    /\ \A r2 \in Resolvers \ {r} : rpc[r2] # "prompt"
            /\ (memory' # memory /\ rpc'[r] # rpc[r]) => lock = r]_vars

\* One caller is inside a terminal read while another, whose key is cached
\* and different, waits for the lock.
C19_Witness ==
    \E r1, r2 \in Resolvers :
        LET k1 == <<login[r1].host, login[r1].username, login[r1].port, Options[ropt[r1]]>>
            k2 == <<login[r2].host, login[r2].username, login[r2].port, Options[ropt[r2]]>>
        IN  /\ rpc[r1] = "prompt" /\ lock = r1
            /\ rpc[r2] = "wait"
            /\ k1 # k2
            /\ k2 \in DOMAIN memory
            /\ k1 \notin DOMAIN memory

\* C20: under fair scheduling, with every terminal read ending, every call of
\* ask_password returns or raises and every resolution, also one that prompts
\* for both secrets, ends resolved or raised.  The lock is held only by a
\* caller inside ask_password (so it is released on every way out) and is
\* never waited for by its holder.
C20_EveryCallCompletes ==
    /\ [](\A r \in Resolvers : lock = r => rpc[r] \in {"locked", "prompt"})
    /\ [](\A r \in Resolvers : rpc[r] = "wait" => lock # r)
    /\ \A r \in Resolvers :
            /\ (rpc[r] = "wait") ~> (rpc[r] \in {"option", "raised"})
            /\ (rpc[r] \in {"option", "wait", "locked", "prompt"})
                    ~> (rpc[r] \in {"resolved", "raised"})

\* A resolution that was answered for both secrets has ended while the other
\* thread's resolution ended with the exception of its read.
C20_Witness ==
    \E r1, r2 \in Resolvers :
        /\ rpc[r1] = "resolved"
        /\ Cardinality(got[r1]) = 2
        /\ rpc[r2] = "raised"
        /\ rerr[r2] = "KeyboardInterrupt"
        /\ lock = 0

(***************************************************************************)
(* Properties of the fs property.                                          *)
(***************************************************************************)
\* C9: for each instance at most one session is ever constructed, none before
\* the first access, and every access returns that one session.
C9_ExactlyOneSessionPerInstance ==
    /\ \A i \in Instances :
        /\ built[i] <= 1
        /\ (built[i] = 0) = (instDict[i] = 0)
    /\ \A t \in Accessors : apc[t] = "got" => aret[t] = Session(ainst[t], 1)

(***************************************************************************)
(* Properties of _prepare_credentials.                                     *)
(***************************************************************************)
HostResolved(r) == rpc[r] \in {"option", "wait", "locked", "prompt", "resolved"}

\* C10, as claimed: the resolved host is the explicit host option, whatever the
\* personal SSH configuration holds.
C10_HostIsExplicitOption ==
    \A r \in Resolvers : HostResolved(r) => login[r].host = rcfg[r].host

\* C10, amended: the resolved host is the Hostname the personal SSH
\* configuration gives for the explicit host when it gives one, and the
\* explicit host option otherwise (also when the configuration file is missing).
C10_HostIsConfiguredHostnameElseExplicit ==
    \A r \in Resolvers :
        HostResolved(r) =>
            /\ rssh[r].Hostname = None => login[r].host = rcfg[r].host
            /\ rssh[r].Hostname # None => login[r].host = rssh[r].Hostname[1]

C10_Witness ==
    \E r \in Resolvers :
        /\ rpc[r] = "resolved"
        /\ rcfg[r].host = "h2"
        /\ rssh[r].Hostname = Some("real.example")
        /\ login[r].host = "real.example"

\* C11, as claimed: the resolved port is the explicit port option when one is
\* given (a port number, 1..65535); otherwise the Port of the personal SSH
\* configuration when it parses as an integer; otherwise, with no Port or with
\* a Port that does not parse, 22 -- and a Port that does not parse is ignored
\* silently, so it never makes the resolution fail.
C11_PortPrecedence ==
    \A r \in Resolvers :
        LET cfg == rcfg[r]
            f == rfile[r]
            claimed ==
                IF cfg.port # None
                THEN cfg.port[1]
                ELSE IF f.Port # None /\ IsIntText(f.Port[1])
                THEN IntOfText(f.Port[1])
                ELSE DEFAULT_PORT
        IN  /\ rerr[r] # "ConfigParseError"
            /\ (HostResolved(r) /\ (cfg.port # None => cfg.port[1] \in 1..65535))
                    => login[r].port = claimed

\* C11, the part the code keeps: the same precedence for every call that read
\* its personal SSH configuration without a parse error.
C11_PortPrecedenceWhenParsed ==
    \A r \in Resolvers :
        LET cfg == rcfg[r]
            f == rfile[r]
            claimed ==
                IF cfg.port # None
                THEN cfg.port[1]
                ELSE IF f.Port # None /\ IsIntText(f.Port[1])
                THEN IntOfText(f.Port[1])
                ELSE DEFAULT_PORT
        IN  (HostResolved(r) /\ (cfg.port # None => cfg.port[1] \in 1..65535))
                => login[r].port = claimed

\* C12: for each kind of secret (password, passphrase) on its own, in a resolved
\* record: an explicit value is returned as it is and the call never asked the
\* prompt cache for that kind; with no explicit value and the ask flag set the
\* value is what the prompt cache returned (and holds) for (resolved host,
\* resolved username, resolved port, kind); with no explicit value and no flag
\* the secret is absent and the cache was never asked for that kind.
C12_SecretPerKind ==
    \A r \in Resolvers :
        rpc[r] = "resolved" =>
            \A kind \in {"password", "passphrase"} :
                LET cfg == rcfg[r]
                    explicit == IF kind = "password" THEN cfg.password ELSE cfg.passphrase
                    ask == IF kind = "password" THEN cfg.ask_password ELSE cfg.ask_passphrase
                    key == <<login[r].host, login[r].username, login[r].port, kind>>
                    val == login[r][kind]
                    asked == \/ \E p \in got[r] : p[1][4] = kind
                             \/ \E k \in DOMAIN prompts : k[4] = kind
                IN  /\ explicit # None => val = explicit /\ ~asked
                    /\ (explicit = None /\ ask) =>
                            /\ <<key, val>> \in got[r]
                            /\ key \in DOMAIN memory /\ memory[key] = val
                    /\ (explicit = None /\ ~ask) => val = None /\ ~asked

\* An explicit empty password with its ask flag set is returned unprompted,
\* while the passphrase of the same call comes from the terminal.
C12_Witness ==
    \E r \in Resolvers :
        /\ rpc[r] = "resolved"
        /\ rcfg[r].password = Some("") /\ rcfg[r].ask_password
        /\ rcfg[r].passphrase = None /\ rcfg[r].ask_passphrase
        /\ login[r].password = Some("")
        /\ login[r].passphrase = Some("s1")
        /\ Cardinality(DOMAIN prompts) = 1

\* C13, as claimed: a call without a host fails with an error that names host
\* (the KeyError of config["host"] stands for the ConfigurationError), and a
\* missing host is the only condition under which a call fails.
C13_OnlyMissingHostFails ==
    \A r \in Resolvers :
        /\ (rpc[r] # "idle" /\ ~rcfg[r].hasHost) =>
                rpc[r] = "raised" /\ rerr[r] = "KeyError"
        /\ rpc[r] = "raised" => ~rcfg[r].hasHost

\* C13, amended: a call without a host fails with KeyError('host') before the
\* personal configuration is read, before any field is resolved and before any
\* prompt; a call with a host never fails that way, but it does fail when the
\* personal configuration does not parse (ConfigParseError) and when a
\* terminal read ends with an exception other than EOFError.
C13_FailureConditions ==
    \A r \in Resolvers :
        /\ (rpc[r] # "idle" /\ ~rcfg[r].hasHost) =>
                /\ rpc[r] = "raised" /\ rerr[r] = "KeyError"
                /\ rfile[r] = NoSshFile /\ login[r] = NoLogin
                /\ got[r] = {} /\ prompts = <<>>
        /\ (rpc[r] = "raised" /\ rcfg[r].hasHost) =>
                \/ /\ rerr[r] = "ConfigParseError"
                   /\ rfile[r].exists
                   /\ rfile[r].Port # None /\ rfile[r].Port[1] = "abc"
                   /\ login[r] = NoLogin
                \/ /\ rerr[r] = "KeyboardInterrupt"
                   /\ outcome[r] = "raise"
                   /\ Count(prompts, <<login[r].host, login[r].username,
                                       login[r].port, Options[ropt[r]]>>) >= 1

C13_Witness ==
    \E r \in Resolvers :
        /\ rpc[r] = "raised"
        /\ ~rcfg[r].hasHost
        /\ rerr[r] = "KeyError"
        /\ login[r] = NoLogin

\* The fields a missing personal configuration file leaves to the options and
\* the defaults, and the secret a declined prompt leaves absent.
RecoverableConditionsRecovered(r) ==
    /\ (rpc[r] = "resolved" /\ ~rfile[r].exists) =>
            /\ login[r].host = rcfg[r].host
            /\ (rcfg[r].user = None /\ rcfg[r].username = None) =>
                    login[r].username = LocalUser
            /\ rcfg[r].port = None => login[r].port = DEFAULT_PORT
            /\ rcfg[r].keyfile = None => login[r].client_keys = None
            /\ rcfg[r].timeout = None => login[r].timeout = DEFAULT_TIMEOUT
            /\ rcfg[r].agent_forwarding = None => login[r].agent_forwarding
            /\ rcfg[r].gss_auth = None => ~login[r].gss_auth
            /\ login[r].proxy_command = None
    /\ rpc[r] = "resolved" =>
            \A p \in got[r] : p[2] = None => login[r][p[1][4]] = None
    /\ outcome[r] = "eof" => rpc[r] # "raised"

\* C14, as claimed: a call with a host never ends with an error from a
\* recoverable condition -- a missing personal configuration file, a
\* non-numeric configured Port, a declined prompt: the missing file leaves
\* every field to the options and the defaults (local user, port 22, no key
\* paths, timeout 1800, agent forwarding on, GSS off), the Port is treated as
\* absent, and the declined secret is absent.
C14_RecoverableConditionsNeverFail ==
    \A r \in Resolvers :
        rcfg[r].hasHost =>
            /\ rerr[r] \notin {"FileNotFoundError", "ConfigParseError"}
            /\ RecoverableConditionsRecovered(r)

\* C15, as claimed: with an explicit keyfile the resolved private key paths are
\* exactly the one-element sequence holding that keyfile, whatever the
\* IdentityFile list of the personal configuration; that list is used, in its
\* order, only when no explicit keyfile is given.
C15_KeyfileAloneAsGiven ==
    \A r \in Resolvers :
        rpc[r] = "resolved" =>
            /\ rcfg[r].keyfile # None =>
                    login[r].client_keys = Some(<<rcfg[r].keyfile[1]>>)
            /\ (rcfg[r].keyfile = None /\ rssh[r].IdentityFile # <<>>) =>
                    login[r].client_keys = Some(rssh[r].IdentityFile)

\* C15, amended: with an explicit, non-empty keyfile the resolved private key
\* paths are exactly the one-element sequence holding that keyfile with a
\* leading ~ expanded to the home directory, whatever the IdentityFile list;
\* with no keyfile (or an empty one) they are the IdentityFile list in its
\* order, each entry expanded the same way, and absent when the list is empty.
C15_KeyfileAloneExpanded ==
    \A r \in Resolvers :
        rpc[r] = "resolved" =>
            LET kf == rcfg[r].keyfile
                idf == rssh[r].IdentityFile
                keys == login[r].client_keys
            IN  /\ (kf # None /\ kf[1] # "") =>
                        keys = Some(<<ExpandUser(kf[1])>>)
                /\ (kf = None \/ kf = Some("")) =>
                        IF idf = <<>> THEN keys = None
                        ELSE /\ keys # None
                             /\ Len(keys[1]) = Len(idf)
                             /\ \A i \in 1..Len(idf) : keys[1][i] = ExpandUser(idf[i])

C15_Witness ==
    \E r \in Resolvers :
        /\ rpc[r] = "resolved"
        /\ rcfg[r].keyfile = Some("~/key")
        /\ rssh[r].IdentityFile = <<"~/id_a", "/k/id_b">>
        /\ login[r].client_keys = Some(<<"/home/local/key">>)

====
